---- MODULE Spec2Model ----
(***************************************************************************)
(* Order-placement saga and inventory reservation ledger of cloud-retail.  *)
(*                                                                         *)
(*   inventory service  (POST /inventory/reserve, /confirm-reservation,    *)
(*                       /release-reservation, /webhook/order-created)     *)
(*   order service      (POST /orders)                                     *)
(*                                                                         *)
(* Every handler is cut at its awaits: one action per stretch of code that *)
(* runs without yielding.  A ledger transaction's UPDATE and COMMIT are    *)
(* one step: the row stays locked between them and READ COMMITTED shows    *)
(* nothing of the write to any other transaction before the COMMIT.        *)
(***************************************************************************)
EXTENDS Integers, FiniteSets, Sequences, TLC

\* ------------------------------------------------------------------ bounds
MaxStock == 3
MaxQty == 2
NumClients == 2

\* ------------------------------------------------------- program constants
MAX_ORDER_QUANTITY == 10000
PROCESSED_EVENTS_LIMIT == 10000

\* --------------------------------------------------------------- universes
ProductIds == {"p1", "p2"}
NoProduct == ""
Ops == {"reserve", "confirm", "release"}

Clients == 1..NumClients
Requests == {1, 2}
Deliveries == {1, 2}
\* webhook requests the consumer can be followed through when it runs alone
DeliverySlots == {1, 2, 3}

\* one ledger request per client, two per order request (reserve, release),
\* one per webhook delivery (confirm)
ReserveCall(r) == NumClients + r
ReleaseCall(r) == NumClients + Cardinality(Requests) + r
ConfirmCall(d) == NumClients + 2 * Cardinality(Requests) + d
CallIds == 1..(NumClients + 2 * Cardinality(Requests) + Cardinality(DeliverySlots))
NoCall == 0

UserIds == {"u1"}
NoUser == ""
IdempotencyKeys == {"k1"}
NoKey == ""

NoRow == [stock_quantity |-> -1, reserved_quantity |-> -1, version |-> -1]
NoResult == [status |-> 0, code |-> "", available |-> -1, requested |-> -1]
IdleCall == [op |-> "", productId |-> NoProduct, quantity |-> 0, fraction |-> FALSE, pc |-> "idle",
             snap |-> NoRow, result |-> NoResult]

VARIABLES
  inventory,   \* inventory table: product_id -> row (NoRow: no such row)
  rowLock,     \* holder of the row lock of each inventory row
  call,        \* ledger requests in progress or answered, by call id
  processedEvents,  \* keys of the consumer's in-memory Map processedEvents
  agedEvents,       \* those whose timestamp is more than an hour old
  otherEvents,      \* the Map's entries for events of earlier orders: how many,
                    \* and whether their timestamps are more than an hour old
  delivery,    \* webhook requests (deliveries of the channel), by delivery
  channel,     \* events accepted by EventBridge putEvents
  orders,      \* committed rows of the orders table
  nextOrderId, \* sequence behind orders.id SERIAL
  nextUuid,    \* uuidv4() values drawn so far
  req          \* POST /orders requests, by request

ledgerVars == <<inventory, rowLock, call>>
consumerVars == <<processedEvents, agedEvents, otherEvents, delivery>>
orderVars == <<channel, orders, nextOrderId, nextUuid, req>>
vars == <<inventory, rowLock, call, processedEvents, agedEvents, otherEvents, delivery,
          channel, orders, nextOrderId, nextUuid, req>>

\* ------------------------------------------------------------ inventory db
\* CHECK (stock_quantity >= 0), CHECK (reserved_quantity >= 0)
CheckConstraints(row) ==
  /\ row.stock_quantity >= 0
  /\ row.reserved_quantity >= 0

\* trigger inventory_sanity_check, BEFORE INSERT OR UPDATE
check_inventory_sanity(row) ==
  ~ (row.stock_quantity - row.reserved_quantity < 0)

RowAcceptedNoChecks(row) == TRUE

\* a written row reaches the table only if the trigger and the constraints pass
RowAccepted(row) ==
  check_inventory_sanity(row) /\ CheckConstraints(row)

\* seeding: INSERT (product_id, stock_quantity, reserved_quantity = 0), version DEFAULT 0
SeedRow(stock) ==
  [stock_quantity |-> stock, reserved_quantity |-> 0, version |-> 0]

Available(row) == row.stock_quantity - row.reserved_quantity

\* ------------------------------------------------------- request validation
\* A JSON number is held as its integer part and a flag: quantity q with
\* fraction TRUE is the number q + 0.5.
\* if (!productId || !quantity || quantity <= 0) -> 400
ValidLedgerBody(p, q, fraction) ==
  ~ (p = NoProduct \/ (q = 0 /\ ~ fraction) \/ q < 0)

Result(status, code, available, requested) ==
  [status |-> status, code |-> code, available |-> available, requested |-> requested]

\* a request reaching a ledger handler: validation, then BEGIN
NewCall(op, p, q, fraction) ==
  IF ValidLedgerBody(p, q, fraction)
  THEN [op |-> op, productId |-> p, quantity |-> q, fraction |-> fraction, pc |-> "begun",
        snap |-> NoRow, result |-> NoResult]
  ELSE [op |-> op, productId |-> p, quantity |-> q, fraction |-> fraction, pc |-> "done",
        snap |-> NoRow, result |-> Result(400, "VALIDATION_ERROR", -1, -1)]

Answer(c, res) == [call[c] EXCEPT !.pc = "done", !.result = res]

\* ------------------------------------------------- POST /inventory/reserve
\* the UPDATE without "version = version + 1"
ReservedRowNoVersion(row, q) ==
  [row EXCEPT !.reserved_quantity = @ + q]

\* the row written by the UPDATE of reserve
ReservedRow(row, q) ==
  [row EXCEPT !.reserved_quantity = @ + q, !.version = @ + 1]

ReserveOutcomeUnchecked(snap, cur, q) ==
  [row |-> ReservedRow(cur, q),
   result |-> Result(200, "", Available(ReservedRow(cur, q)), -1)]

\* availability taken from stock_quantity alone
ReserveOutcomeStockOnly(snap, cur, q) ==
  IF snap.stock_quantity < q
  THEN [row |-> cur,
        result |-> Result(409, "INSUFFICIENT_STOCK", snap.stock_quantity, q)]
  ELSE IF cur.version # snap.version
  THEN [row |-> cur, result |-> Result(409, "CONCURRENT_MODIFICATION", -1, -1)]
  ELSE IF ~ RowAccepted(ReservedRow(cur, q))
  THEN [row |-> cur, result |-> Result(500, "INTERNAL_ERROR", -1, -1)]
  ELSE [row |-> ReservedRow(cur, q),
        result |-> Result(200, "", Available(ReservedRow(cur, q)), -1)]

\* a quantity q + 0.5: the availability check compares numbers; the UPDATE then
\* binds "q.5" to an integer column, the statement raises and the catch block
\* rolls back and answers 500
ReserveFractionOutcome(cur, q) ==
  IF Available(cur) < q + 1
  THEN [row |-> cur, result |-> Result(409, "INSUFFICIENT_STOCK", Available(cur), q)]
  ELSE [row |-> cur, result |-> Result(500, "INTERNAL_ERROR", -1, -1)]

\* what follows SELECT ... FOR UPDATE: snap is the row read under the lock,
\* cur the row the UPDATE finds; yields the row left in the table and the answer
ReserveOutcome(snap, cur, q) ==
  IF Available(snap) < q
  THEN [row |-> cur,
        result |-> Result(409, "INSUFFICIENT_STOCK", Available(snap), q)]
  ELSE IF cur.version # snap.version
  THEN [row |-> cur, result |-> Result(409, "CONCURRENT_MODIFICATION", -1, -1)]
  ELSE IF ~ RowAccepted(ReservedRow(cur, q))
  THEN [row |-> cur, result |-> Result(500, "INTERNAL_ERROR", -1, -1)]
  ELSE [row |-> ReservedRow(cur, q),
        result |-> Result(200, "", Available(ReservedRow(cur, q)), -1)]

\* the SELECT without FOR UPDATE: reads the row, takes no lock, waits for none
ReserveLockNoWait(c) ==
  /\ call[c].pc = "begun"
  /\ call[c].op = "reserve"
  /\ LET p == call[c].productId IN
       IF inventory[p] = NoRow
       THEN /\ call' = [call EXCEPT ![c] = Answer(c, Result(404, "PRODUCT_NOT_FOUND", -1, -1))]
            /\ UNCHANGED <<inventory, rowLock>>
       ELSE /\ call' = [call EXCEPT ![c].pc = "locked", ![c].snap = inventory[p]]
            /\ UNCHANGED <<inventory, rowLock>>
  /\ UNCHANGED <<consumerVars, orderVars>>

\* SELECT * FROM inventory WHERE product_id = $1 FOR UPDATE
ReserveLock(c) ==
  /\ call[c].pc = "begun"
  /\ call[c].op = "reserve"
  /\ LET p == call[c].productId IN
       IF inventory[p] = NoRow
       THEN /\ call' = [call EXCEPT ![c] = Answer(c, Result(404, "PRODUCT_NOT_FOUND", -1, -1))]
            /\ UNCHANGED <<inventory, rowLock>>
       ELSE /\ rowLock[p] = NoCall
            /\ rowLock' = [rowLock EXCEPT ![p] = c]
            /\ call' = [call EXCEPT ![c].pc = "locked", ![c].snap = inventory[p]]
            /\ UNCHANGED inventory
  /\ UNCHANGED <<consumerVars, orderVars>>

\* a handler whose refusals return without ROLLBACK: the transaction stays open
\* on the pooled connection and keeps the row lock
ReserveWriteKeepsLock(c) ==
  /\ call[c].pc = "locked"
  /\ call[c].op = "reserve"
  /\ LET p == call[c].productId
         out == IF call[c].fraction
                THEN ReserveFractionOutcome(inventory[p], call[c].quantity)
                ELSE ReserveOutcome(call[c].snap, inventory[p], call[c].quantity)
     IN /\ inventory' = [inventory EXCEPT ![p] = out.row]
        /\ rowLock' = IF out.result.status = 200
                      THEN [rowLock EXCEPT ![p] = NoCall] ELSE rowLock
        /\ call' = [call EXCEPT ![c] = Answer(c, out.result)]
  /\ UNCHANGED <<consumerVars, orderVars>>

\* the availability check, the version-conditioned UPDATE, COMMIT or ROLLBACK
ReserveWrite(c) ==
  /\ call[c].pc = "locked"
  /\ call[c].op = "reserve"
  /\ LET p == call[c].productId
         out == IF call[c].fraction
                THEN ReserveFractionOutcome(inventory[p], call[c].quantity)
                ELSE ReserveOutcome(call[c].snap, inventory[p], call[c].quantity)
     IN /\ inventory' = [inventory EXCEPT ![p] = out.row]
        /\ rowLock' = [rowLock EXCEPT ![p] = NoCall]
        /\ call' = [call EXCEPT ![c] = Answer(c, out.result)]
  /\ UNCHANGED <<consumerVars, orderVars>>

\* a query of the reserve transaction rejects (connection lost, statement
\* error): catch block, ROLLBACK, 500; the row lock goes with the transaction
ReserveFails(c) ==
  /\ call[c].pc \in {"begun", "locked"}
  /\ call[c].op = "reserve"
  /\ call' = [call EXCEPT ![c] = Answer(c, Result(500, "INTERNAL_ERROR", -1, -1))]
  /\ rowLock' = [p \in ProductIds |-> IF rowLock[p] = c THEN NoCall ELSE rowLock[p]]
  /\ UNCHANGED <<inventory, consumerVars, orderVars>>

\* ------------------------------------ POST /inventory/confirm-reservation
\* the UPDATE without "reserved_quantity = reserved_quantity - $1"
ConfirmedRowStockOnly(row, q) ==
  [row EXCEPT !.stock_quantity = @ - q]

ConfirmedRow(row, q) ==
  [row EXCEPT !.stock_quantity = @ - q, !.reserved_quantity = @ - q]

\* ------------------------------------ POST /inventory/release-reservation
\* an UPDATE that gives the quantity back to neither side: takes it from stock too
ReleasedRowTouchesStock(row, q) ==
  [row EXCEPT !.stock_quantity = @ - q, !.reserved_quantity = @ - q]

ReleasedRow(row, q) ==
  [row EXCEPT !.reserved_quantity = @ - q]

\* a table without the CHECK constraints and the trigger: every UPDATE goes through
UpdateOutcomeUnchecked(op, cur, q, fraction) ==
  LET new == IF op = "confirm" THEN ConfirmedRow(cur, q) ELSE ReleasedRow(cur, q) IN
  IF fraction
  THEN [row |-> cur, result |-> Result(500, "INTERNAL_ERROR", -1, -1)]
  ELSE IF cur = NoRow
  THEN [row |-> cur, result |-> Result(404, "PRODUCT_NOT_FOUND", -1, -1)]
  ELSE [row |-> new, result |-> Result(200, "", -1, -1)]

\* BEGIN; UPDATE ... WHERE product_id = $2 RETURNING *; COMMIT  (confirm, release)
\* The UPDATE waits for the row lock; a rejected row raises, the catch block
\* rolls back and answers 500.
UpdateOutcome(op, cur, q, fraction) ==
  LET new == IF op = "confirm" THEN ConfirmedRow(cur, q) ELSE ReleasedRow(cur, q) IN
  IF fraction
  THEN [row |-> cur, result |-> Result(500, "INTERNAL_ERROR", -1, -1)]
  ELSE IF cur = NoRow
  THEN [row |-> cur, result |-> Result(404, "PRODUCT_NOT_FOUND", -1, -1)]
  ELSE IF ~ RowAccepted(new)
  THEN [row |-> cur, result |-> Result(500, "INTERNAL_ERROR", -1, -1)]
  ELSE [row |-> new, result |-> Result(200, "", -1, -1)]

\* the UPDATE without "WHERE product_id = $2": it takes the quantity from every
\* row, and fails as a whole when one of them would be rejected
ConfirmReservationEveryRow(c) ==
  /\ call[c].pc = "begun"
  /\ call[c].op = "confirm"
  /\ \A p \in ProductIds : rowLock[p] = NoCall
  /\ LET q == call[c].quantity
         rows == {p \in ProductIds : inventory[p] # NoRow}
         ok == ~ call[c].fraction /\ \A p \in rows : RowAccepted(ConfirmedRow(inventory[p], q))
     IN /\ inventory' = [p \in ProductIds |->
             IF ok /\ p \in rows THEN ConfirmedRow(inventory[p], q) ELSE inventory[p]]
        /\ call' = [call EXCEPT ![c] = Answer(c,
             IF ~ ok THEN Result(500, "INTERNAL_ERROR", -1, -1)
             ELSE IF rows = {} THEN Result(404, "PRODUCT_NOT_FOUND", -1, -1)
             ELSE Result(200, "", -1, -1))]
        /\ UNCHANGED rowLock
  /\ UNCHANGED <<consumerVars, orderVars>>

ConfirmReservation(c) ==
  /\ call[c].pc = "begun"
  /\ call[c].op = "confirm"
  /\ LET p == call[c].productId
         out == UpdateOutcome("confirm", inventory[p], call[c].quantity, call[c].fraction)
     IN /\ rowLock[p] = NoCall
        /\ inventory' = [inventory EXCEPT ![p] = out.row]
        /\ call' = [call EXCEPT ![c] = Answer(c, out.result)]
        /\ UNCHANGED rowLock
  /\ UNCHANGED <<consumerVars, orderVars>>

ReleaseReservation(c) ==
  /\ call[c].pc = "begun"
  /\ call[c].op = "release"
  /\ LET p == call[c].productId
         out == UpdateOutcome("release", inventory[p], call[c].quantity, call[c].fraction)
     IN /\ rowLock[p] = NoCall
        /\ inventory' = [inventory EXCEPT ![p] = out.row]
        /\ call' = [call EXCEPT ![c] = Answer(c, out.result)]
        /\ UNCHANGED rowLock
  /\ UNCHANGED <<consumerVars, orderVars>>

\* ------------------------------------------------ clients of the ledger API
\* any HTTP client posting to one of the three ledger routes
\* (clients are interchangeable: they are numbered in the order they call)
ClientCall(c, op, p, q) ==
  /\ call[c].pc = "idle"
  /\ \A d \in Clients : d < c => call[d].pc # "idle"
  /\ call' = [call EXCEPT ![c] = NewCall(op, p, q, FALSE)]
  /\ UNCHANGED <<inventory, rowLock, consumerVars, orderVars>>

\* -------------------------------- POST /inventory/webhook/order-created
NoEvent == [event_id |-> <<0, 0>>, order_id |-> 0, product_id |-> NoProduct, quantity |-> 0]
IdleDelivery == [pc |-> "idle", event |-> NoEvent, status |-> 0, code |-> "",
                 duplicate |-> FALSE]
NoOtherEvents == [count |-> 0, aged |-> FALSE]

\* what the webhook request is answered with
Reply(e, status, code, duplicate) ==
  [pc |-> "done", event |-> e, status |-> status, code |-> code, duplicate |-> duplicate]

\* if (!event_id || !product_id || !quantity) -> 400
ValidEvent(e) == ~ (e.event_id = <<0, 0>> \/ e.product_id = NoProduct \/ e.quantity = 0)

\* processedEvents.size after processedEvents.set(id, ...)
MapSize(pe, others, id) == Cardinality(pe \cup {id}) + others.count

\* the event is answered for but never put into the Map
MarkProcessedForgets(pe, aged, others, id) == pe

\* processedEvents.set(event_id, {timestamp: Date.now(), ...}), then the cleanup of
\* the entries older than an hour once the Map holds more than 10000
MarkProcessed(pe, aged, others, id) ==
  IF MapSize(pe, others, id) > PROCESSED_EVENTS_LIMIT
  THEN (pe \cup {id}) \ (aged \ {id})
  ELSE pe \cup {id}

\* the entries of earlier events that the same cleanup leaves
OthersKept(pe, others, id) ==
  IF MapSize(pe, others, id) > PROCESSED_EVENTS_LIMIT /\ others.aged
  THEN NoOtherEvents
  ELSE others

\* a handler without the processedEvents.has(event_id) check
WebhookReceiveNoDedup(d, e) ==
  /\ delivery[d].pc = "idle"
  /\ \A d2 \in DeliverySlots : d2 < d => delivery[d2].pc # "idle"
  /\ e \in channel
  /\ IF ~ ValidEvent(e)
     THEN /\ delivery' = [delivery EXCEPT ![d] = Reply(e, 400, "VALIDATION_ERROR", FALSE)]
          /\ UNCHANGED call
     ELSE /\ delivery' = [delivery EXCEPT ![d] = [IdleDelivery EXCEPT !.pc = "confirming",
                                                                     !.event = e]]
          /\ call' = [call EXCEPT ![ConfirmCall(d)] =
                        NewCall("confirm", e.product_id, e.quantity, FALSE)]
  /\ UNCHANGED <<inventory, rowLock, processedEvents, agedEvents, otherEvents, orderVars>>

\* the channel invokes the webhook with a published event: validation,
\* processedEvents.has(event_id), then the request to confirm-reservation
WebhookReceive(d, e) ==
  /\ delivery[d].pc = "idle"
  /\ \A d2 \in DeliverySlots : d2 < d => delivery[d2].pc # "idle"
  /\ e \in channel
  /\ IF ~ ValidEvent(e)
     THEN /\ delivery' = [delivery EXCEPT ![d] = Reply(e, 400, "VALIDATION_ERROR", FALSE)]
          /\ UNCHANGED call
     ELSE IF e.event_id \in processedEvents
     THEN /\ delivery' = [delivery EXCEPT ![d] = Reply(e, 200, "", TRUE)]
          /\ UNCHANGED call
     ELSE /\ delivery' = [delivery EXCEPT ![d] = [IdleDelivery EXCEPT !.pc = "confirming",
                                                                     !.event = e]]
          /\ call' = [call EXCEPT ![ConfirmCall(d)] =
                        NewCall("confirm", e.product_id, e.quantity, FALSE)]
  /\ UNCHANGED <<inventory, rowLock, processedEvents, agedEvents, otherEvents, orderVars>>

\* a handler that records the event whatever confirm-reservation answered
WebhookConfirmedAlwaysRecords(d) ==
  /\ delivery[d].pc = "confirming"
  /\ call[ConfirmCall(d)].pc = "done"
  /\ LET res == call[ConfirmCall(d)].result
         id == delivery[d].event.event_id
     IN /\ delivery' = [delivery EXCEPT ![d] =
               Reply(delivery[d].event, res.status, res.code, FALSE)]
        /\ processedEvents' = MarkProcessed(processedEvents, agedEvents, otherEvents, id)
        /\ otherEvents' = OthersKept(processedEvents, otherEvents, id)
        /\ agedEvents' = (agedEvents \ {id}) \cap processedEvents'
  /\ UNCHANGED <<ledgerVars, orderVars>>

\* confirmResponse arrives: on 200 record the event, clean up and answer 200;
\* otherwise answer with the status and body confirm-reservation gave
WebhookConfirmed(d) ==
  /\ delivery[d].pc = "confirming"
  /\ call[ConfirmCall(d)].pc = "done"
  /\ LET res == call[ConfirmCall(d)].result
         id == delivery[d].event.event_id
     IN /\ delivery' = [delivery EXCEPT ![d] =
               Reply(delivery[d].event, res.status, res.code, FALSE)]
        /\ IF res.status = 200
           THEN /\ processedEvents' =
                     MarkProcessed(processedEvents, agedEvents, otherEvents, id)
                /\ otherEvents' = OthersKept(processedEvents, otherEvents, id)
                /\ agedEvents' = (agedEvents \ {id}) \cap processedEvents'
           ELSE UNCHANGED <<processedEvents, otherEvents, agedEvents>>
  /\ UNCHANGED <<ledgerVars, orderVars>>

\* an hour passes: every entry recorded so far is now older than oneHourAgo
HourPasses ==
  /\ agedEvents # processedEvents \/ (otherEvents.count > 0 /\ ~ otherEvents.aged)
  /\ agedEvents' = processedEvents
  /\ otherEvents' = [otherEvents EXCEPT !.aged = (otherEvents.count > 0)]
  /\ UNCHANGED <<ledgerVars, processedEvents, delivery, orderVars>>

\* the inventory-service process is replaced: the Map starts empty
\* (const processedEvents = new Map()), requests it was handling get no answer,
\* their open transactions are rolled back and their row locks given up
Restart ==
  /\ processedEvents' = {}
  /\ agedEvents' = {}
  /\ otherEvents' = NoOtherEvents
  /\ delivery' = [d \in DeliverySlots |->
       IF delivery[d].pc = "confirming"
       THEN Reply(delivery[d].event, 0, "", FALSE)
       ELSE delivery[d]]
  /\ call' = [c \in CallIds |->
       IF call[c].pc \in {"begun", "locked"}
       THEN Answer(c, NoResult)
       ELSE call[c]]
  /\ rowLock' = [p \in ProductIds |-> NoCall]
  /\ UNCHANGED <<inventory, orderVars>>

\* ------------------------------------------------------------ POST /orders
NoOrder == [id |-> 0, user_id |-> NoUser, product_id |-> NoProduct, quantity |-> 0,
            total_price |-> 0, status |-> "", idempotency_key |-> NoKey]
NoResponse == [status |-> 0, code |-> "", duplicate |-> FALSE, order |-> NoOrder,
               available |-> -1, requested |-> -1]
\* what the client of a request saw on GET /inventory/:productId
NoCheck == [productId |-> NoProduct, available_stock |-> -1, releases |-> {}]
IdleRequest == [pc |-> "idle", userId |-> NoUser, productId |-> NoProduct, quantity |-> 0,
                fraction |-> FALSE, preCheck |-> NoCheck, postCheck |-> NoCheck,
                idempotencyKey |-> NoKey, totalPrice |-> 0, stockReserved |-> FALSE,
                reservationData |-> -1, order |-> NoOrder, published |-> NoEvent,
                failedAt |-> "", response |-> NoResponse]

\* price of a product in the catalogue of the product service
Price(p) == 5

Response(status, code) == [NoResponse EXCEPT !.status = status, !.code = code]

Respond(r, resp) == [req[r] EXCEPT !.pc = "done", !.response = resp]

\* Step 1: if (!userId || !productId || !quantity) -> 400;
\*         if (typeof quantity !== 'number' || quantity <= 0 || quantity > 10000) -> 400
ValidOrderBody(userId, productId, quantity, fraction) ==
  /\ ~ (userId = NoUser \/ productId = NoProduct \/ (quantity = 0 /\ ~ fraction))
  /\ ~ (\/ quantity < 0 \/ (quantity = 0 /\ ~ fraction)
        \/ quantity > MAX_ORDER_QUANTITY \/ (quantity = MAX_ORDER_QUANTITY /\ fraction))

\* SELECT * FROM orders WHERE idempotency_key = $1
OrdersWithKey(key) == {o \in orders : o.idempotency_key = key}

\* a handler without Step 2
OrderReceiveNoIdempotency(r, userId, productId, quantity, fraction, key) ==
  /\ req[r].pc = "idle"
  /\ \A r2 \in Requests : r2 < r => req[r2].pc # "idle"
  /\ LET body == [req[r] EXCEPT !.userId = userId, !.productId = productId,
                                !.quantity = quantity, !.fraction = fraction,
                                !.idempotencyKey = key]
     IN req' = [req EXCEPT ![r] =
          IF ~ ValidOrderBody(userId, productId, quantity, fraction)
          THEN [body EXCEPT !.pc = "done", !.response = Response(400, "VALIDATION_ERROR")]
          ELSE [body EXCEPT !.pc = "lookup"]]
  /\ UNCHANGED <<ledgerVars, consumerVars, channel, orders, nextOrderId, nextUuid>>

\* Steps 1 and 2: validation and the idempotency check
OrderReceive(r, userId, productId, quantity, fraction, key) ==
  /\ req[r].pc = "idle"
  /\ \A r2 \in Requests : r2 < r => req[r2].pc # "idle"
  /\ LET body == [req[r] EXCEPT !.userId = userId, !.productId = productId,
                                !.quantity = quantity, !.fraction = fraction,
                                !.idempotencyKey = key]
     IN req' = [req EXCEPT ![r] =
          IF ~ ValidOrderBody(userId, productId, quantity, fraction)
          THEN [body EXCEPT !.pc = "done", !.response = Response(400, "VALIDATION_ERROR")]
          ELSE IF key # NoKey /\ OrdersWithKey(key) # {}
          THEN [body EXCEPT !.pc = "done",
                  !.response = [Response(200, "") EXCEPT !.duplicate = TRUE,
                                  !.order = CHOOSE o \in OrdersWithKey(key) : TRUE]]
          ELSE [body EXCEPT !.pc = "lookup"]]
  /\ UNCHANGED <<ledgerVars, consumerVars, channel, orders, nextOrderId, nextUuid>>

\* const client = await pool.connect() rejects (database unreachable, pool
\* exhausted): the statement stands before the try block, so the async handler
\* rejects. Express 4 leaves the request without any answer; Express 5 hands the
\* error to its default handler, which answers 500 without a JSON code.
OrderConnectFails(r, userId, productId, quantity, fraction, key, answered) ==
  /\ req[r].pc = "idle"
  /\ \A r2 \in Requests : r2 < r => req[r2].pc # "idle"
  /\ LET body == [req[r] EXCEPT !.userId = userId, !.productId = productId,
                                !.quantity = quantity, !.fraction = fraction,
                                !.idempotencyKey = key]
     IN req' = [req EXCEPT ![r] =
          IF answered
          THEN [body EXCEPT !.pc = "done", !.response = Response(500, "")]
          ELSE [body EXCEPT !.pc = "unanswered"]]
  /\ UNCHANGED <<ledgerVars, consumerVars, channel, orders, nextOrderId, nextUuid>>

\* Step 3: GET /products/:id; then Step 4 sends the reserve request
\* (totalPrice is kept for the whole part of quantity; it is used by the INSERT
\* only, which no request with a fractional quantity reaches)
ProductLookup(r, outcome) ==
  /\ req[r].pc = "lookup"
  /\ IF outcome = "found"
     THEN /\ req' = [req EXCEPT ![r].pc = "reserving",
                                ![r].totalPrice = Price(req[r].productId) * req[r].quantity]
          /\ call' = [call EXCEPT ![ReserveCall(r)] =
                        NewCall("reserve", req[r].productId, req[r].quantity, req[r].fraction)]
     ELSE /\ req' = [req EXCEPT ![r] = Respond(r,
                        IF outcome = "notfound"
                        THEN Response(404, "PRODUCT_NOT_FOUND")
                        ELSE Response(503, "SERVICE_UNAVAILABLE"))]
          /\ UNCHANGED call
  /\ UNCHANGED <<inventory, rowLock, consumerVars, channel, orders, nextOrderId, nextUuid>>

\* a handler that goes on to the INSERT whatever the ledger answered
ReserveReturnsAnyStatus(r) ==
  /\ req[r].pc = "reserving"
  /\ call[ReserveCall(r)].pc = "done"
  /\ req' = [req EXCEPT ![r] =
       [req[r] EXCEPT !.pc = "insert", !.stockReserved = TRUE,
                      !.reservationData = call[ReserveCall(r)].result.available]]
  /\ UNCHANGED <<ledgerVars, consumerVars, channel, orders, nextOrderId, nextUuid>>

\* Step 4: the answer of the ledger arrives; on 200, Step 5 (BEGIN)
ReserveReturns(r) ==
  /\ req[r].pc = "reserving"
  /\ call[ReserveCall(r)].pc = "done"
  /\ LET res == call[ReserveCall(r)].result IN
     req' = [req EXCEPT ![r] =
       IF res.status = 200
       THEN [req[r] EXCEPT !.pc = "insert", !.stockReserved = TRUE,
                           !.reservationData = res.available]
       ELSE IF res.status = 409 /\ res.code = "INSUFFICIENT_STOCK"
       THEN Respond(r, [Response(409, "INSUFFICIENT_STOCK") EXCEPT
                          !.available = res.available, !.requested = req[r].quantity])
       ELSE IF res.status = 404
       THEN Respond(r, Response(404, "PRODUCT_NOT_IN_INVENTORY"))
       ELSE Respond(r, Response(503, "SERVICE_UNAVAILABLE"))]
  /\ UNCHANGED <<ledgerVars, consumerVars, channel, orders, nextOrderId, nextUuid>>

\* a handler that releases on every failure, stockReserved set or not
ReserveTimeoutReleases(r) ==
  /\ req[r].pc = "reserving"
  /\ req' = [req EXCEPT ![r] = Respond(r, Response(503, "SERVICE_UNAVAILABLE"))]
  /\ call' = [call EXCEPT ![ReleaseCall(r)] =
                NewCall("release", req[r].productId, req[r].quantity, req[r].fraction)]
  /\ UNCHANGED <<inventory, rowLock, consumerVars, channel, orders, nextOrderId, nextUuid>>

\* Step 4: axios gives up (timeout: 5000, or the connection breaks) with no answer
ReserveTimeout(r) ==
  /\ req[r].pc = "reserving"
  /\ req' = [req EXCEPT ![r] = Respond(r, Response(503, "SERVICE_UNAVAILABLE"))]
  /\ UNCHANGED <<ledgerVars, consumerVars, channel, orders, nextOrderId, nextUuid>>

\* catch (dbError): ROLLBACK, rethrow; catch (error), Step 9: stockReserved is
\* set, so the release request is sent (failedAt: the statement that threw)
Compensate(r, stmt) ==
  [req[r] EXCEPT !.pc = "releasing", !.order = NoOrder, !.failedAt = stmt]

\* uncommitted inserts of other transactions carrying the same key: the unique
\* index makes the INSERT wait for them
PendingWithKey(r, key) ==
  {r2 \in Requests \ {r} : /\ req[r2].pc \in {"publish", "commit"}
                           /\ key # NoKey
                           /\ req[r2].order.idempotency_key = key}

\* Step 6: INSERT INTO orders ... RETURNING *
OrderInsert(r, fails) ==
  /\ req[r].pc = "insert"
  /\ PendingWithKey(r, req[r].idempotencyKey) = {}
  /\ LET key == req[r].idempotencyKey
         unique == key = NoKey \/ OrdersWithKey(key) = {}
         row == [id |-> nextOrderId, user_id |-> req[r].userId,
                 product_id |-> req[r].productId, quantity |-> req[r].quantity,
                 total_price |-> req[r].totalPrice, status |-> "pending",
                 idempotency_key |-> key]
     IN IF fails
        THEN /\ req' = [req EXCEPT ![r] = Compensate(r, "insert")]
             /\ UNCHANGED nextOrderId
        ELSE /\ nextOrderId' = nextOrderId + 1
             /\ req' = [req EXCEPT ![r] =
                  IF unique THEN [req[r] EXCEPT !.pc = "publish", !.order = row]
                  ELSE Compensate(r, "unique")]
  /\ call' = IF req'[r].pc = "releasing"
             THEN [call EXCEPT ![ReleaseCall(r)] =
                     NewCall("release", req[r].productId, req[r].quantity,
                             req[r].fraction)]
             ELSE call
  /\ UNCHANGED <<inventory, rowLock, consumerVars, channel, orders, nextUuid>>

\* what eventbridge.putEvents(params).promise() can do: resolve with the entry
\* accepted, reject (the catch block throws), or resolve with the entry reported
\* as failed in the result (FailedEntryCount: 1), which the handler does not read
PublishOutcomes == {"accepted", "thrown", "failedEntry"}

\* Step 7: eventbridge.putEvents
OrderPublish(r, outcome) ==
  /\ req[r].pc = "publish"
  /\ LET event == [event_id |-> <<req[r].order.id, nextUuid>>,
                   order_id |-> req[r].order.id,
                   product_id |-> req[r].productId,
                   quantity |-> req[r].quantity]
     IN IF outcome = "thrown"
        THEN /\ req' = [req EXCEPT ![r] = Compensate(r, "publish")]
             /\ call' = [call EXCEPT ![ReleaseCall(r)] =
                           NewCall("release", req[r].productId, req[r].quantity,
                             req[r].fraction)]
             /\ UNCHANGED channel
        ELSE IF outcome = "failedEntry"
        THEN /\ req' = [req EXCEPT ![r].pc = "commit"]
             /\ UNCHANGED <<channel, call>>
        ELSE /\ req' = [req EXCEPT ![r].pc = "commit", ![r].published = event]
             /\ channel' = channel \cup {event}
             /\ UNCHANGED call
  /\ nextUuid' = nextUuid + 1
  /\ UNCHANGED <<inventory, rowLock, consumerVars, orders, nextOrderId>>

\* Step 8: COMMIT, then the 201 answer
OrderCommit(r, fails) ==
  /\ req[r].pc = "commit"
  /\ IF fails
     THEN /\ req' = [req EXCEPT ![r] = Compensate(r, "commit")]
          /\ call' = [call EXCEPT ![ReleaseCall(r)] =
                        NewCall("release", req[r].productId, req[r].quantity,
                             req[r].fraction)]
          /\ UNCHANGED orders
     ELSE /\ orders' = orders \cup {req[r].order}
          /\ req' = [req EXCEPT ![r] = Respond(r,
                       [Response(201, "") EXCEPT !.order = req[r].order,
                                                 !.available = req[r].reservationData])]
          /\ UNCHANGED call
  /\ UNCHANGED <<inventory, rowLock, consumerVars, channel, nextOrderId, nextUuid>>

\* Step 9: the release request is answered (whatever the answer) or given up;
\* then the 500 answer
ReleaseReturns(r) ==
  /\ req[r].pc = "releasing"
  /\ call[ReleaseCall(r)].pc = "done"
  /\ req' = [req EXCEPT ![r] = Respond(r, Response(500, "INTERNAL_ERROR"))]
  /\ UNCHANGED <<ledgerVars, consumerVars, channel, orders, nextOrderId, nextUuid>>

ReleaseTimeout(r) ==
  /\ req[r].pc = "releasing"
  /\ call[ReleaseCall(r)].pc # "done"
  /\ req' = [req EXCEPT ![r] = Respond(r, Response(500, "INTERNAL_ERROR"))]
  /\ UNCHANGED <<ledgerVars, consumerVars, channel, orders, nextOrderId, nextUuid>>

\* available_stock taken for stock_quantity
GetInventoryStockOnly(p) ==
  IF inventory[p] = NoRow
  THEN [status |-> 404, available_stock |-> -1]
  ELSE [status |-> 200, available_stock |-> inventory[p].stock_quantity]

\* GET /inventory/:productId: SELECT * FROM inventory WHERE product_id = $1,
\* availableStock = item.stock_quantity - (item.reserved_quantity || 0)
GetInventory(p) ==
  IF inventory[p] = NoRow
  THEN [status |-> 404, available_stock |-> -1]
  ELSE [status |-> 200,
        available_stock |-> inventory[p].stock_quantity - inventory[p].reserved_quantity]

\* the release requests on p that the ledger has applied so far
ReleasesApplied(p) ==
  {c \in CallIds : /\ call[c].op = "release" /\ call[c].productId = p
                  /\ call[c].pc = "done" /\ call[c].result.status = 200}

Check(p) ==
  [productId |-> p, available_stock |-> GetInventory(p).available_stock,
   releases |-> ReleasesApplied(p)]

\* the client of request r reads the inventory of p before it orders
PreOrderInventoryCheck(r, p) ==
  /\ req[r].pc = "idle"
  /\ req[r].preCheck = NoCheck
  /\ GetInventory(p).status = 200
  /\ req' = [req EXCEPT ![r].preCheck = Check(p)]
  /\ UNCHANGED <<ledgerVars, consumerVars, channel, orders, nextOrderId, nextUuid>>

\* ... and again after its order was answered 201
PostOrderInventoryCheck(r) ==
  /\ req[r].pc = "done"
  /\ req[r].response.status = 201
  /\ req[r].preCheck.productId = req[r].productId
  /\ req[r].postCheck = NoCheck
  /\ GetInventory(req[r].productId).status = 200
  /\ req' = [req EXCEPT ![r].postCheck = Check(req[r].productId)]
  /\ UNCHANGED <<ledgerVars, consumerVars, channel, orders, nextOrderId, nextUuid>>

\* GET /orders/:id: SELECT * FROM orders WHERE id = $1
GetOrder(id) ==
  IF \E o \in orders : o.id = id
  THEN [status |-> 200, order |-> CHOOSE o \in orders : o.id = id]
  ELSE [status |-> 404, order |-> NoOrder]

\* the order-service process starts (again): initDB() runs
\* DROP TABLE IF EXISTS orders; CREATE TABLE orders (id SERIAL ...), and the
\* requests the old process was handling get no answer, their transactions
\* being rolled back
OrderServiceStart ==
  /\ orders' = {}
  /\ nextOrderId' = 1
  /\ req' = [r \in Requests |->
       IF req[r].pc \in {"idle", "done", "unanswered"}
       THEN req[r]
       ELSE [req[r] EXCEPT !.pc = "unanswered"]]
  /\ UNCHANGED <<ledgerVars, consumerVars, channel, nextUuid>>

\* ------------------------------------------------------------------- specs
InitRest ==
  /\ rowLock = [p \in ProductIds |-> NoCall]
  /\ call = [c \in CallIds |-> IdleCall]
  /\ processedEvents = {}
  /\ agedEvents = {}
  /\ otherEvents = NoOtherEvents
  /\ delivery = [d \in DeliverySlots |-> IdleDelivery]
  /\ channel = {}
  /\ orders = {}
  /\ nextOrderId = 1
  /\ nextUuid = 1
  /\ req = [r \in Requests |-> IdleRequest]

\* the seeded table, or the table after one reserve
InitLedger ==
  /\ \E s \in 0..MaxStock, r \in 0..MaxStock, r2 \in {NoRow, SeedRow(MaxStock)} :
       /\ r <= s
       /\ inventory = [p \in ProductIds |->
            IF p = "p1"
            THEN (IF r = 0 THEN SeedRow(s) ELSE ReservedRow(SeedRow(s), r))
            ELSE r2]
  /\ InitRest

\* the seeded table
InitSeeded ==
  /\ \E s \in 0..MaxStock, r2 \in {NoRow, SeedRow(MaxStock)} :
       inventory = [p \in ProductIds |-> IF p = "p1" THEN SeedRow(s) ELSE r2]
  /\ InitRest

Init ==
  /\ inventory = [p \in ProductIds |-> IF p = "p1" THEN SeedRow(MaxStock) ELSE NoRow]
  /\ InitRest

\* a ledger transaction, whoever sent the request
LedgerStep(c) ==
  \/ ReserveLock(c)
  \/ ReserveWrite(c)
  \/ ConfirmReservation(c)
  \/ ReleaseReservation(c)

\* the ledger alone, called by arbitrary clients
NextLedger ==
  \/ \E c \in Clients, op \in Ops, p \in ProductIds, q \in 0..MaxQty :
       ClientCall(c, op, p, q)
  \/ \E c \in Clients : LedgerStep(c)

SpecLedger == InitLedger /\ [][NextLedger]_vars

\* concurrent Reserve calls only
ReserveStep(c) ==
  \/ ReserveLock(c)
  \/ ReserveWrite(c)

NextReserve ==
  \/ \E c \in Clients, p \in ProductIds, q \in 0..MaxQty : ClientCall(c, "reserve", p, q)
  \/ \E c \in Clients : ReserveStep(c)

SpecReserve == InitSeeded /\ [][NextReserve]_vars

\* concurrent calls on the ledger: Reserve with any body, on the seeded row
\* (free or with one unit held) or on a product without a row, beside confirm
\* and release requests of one unit on the same row; queries of reserve may
\* fail; every handler that can take a step eventually takes it
InitContended ==
  /\ \E r \in 0..1 :
       inventory = [p \in ProductIds |->
         IF p = "p1"
         THEN (IF r = 0 THEN SeedRow(MaxStock) ELSE ReservedRow(SeedRow(MaxStock), r))
         ELSE NoRow]
  /\ InitRest

NextContended ==
  \/ \E c \in Clients, p \in ProductIds, q \in 0..MaxQty : ClientCall(c, "reserve", p, q)
  \/ \E c \in Clients, op \in {"confirm", "release"} : ClientCall(c, op, "p1", 1)
  \/ \E c \in Clients : LedgerStep(c)
  \/ \E c \in Clients : ReserveFails(c)

SpecContended ==
  InitContended /\ [][NextContended]_vars /\ \A c \in Clients : WF_vars(LedgerStep(c))

\* the saga: order requests, the channel and the consumer
OrderSubmit(r, fractions) ==
  \E u \in UserIds \cup {NoUser}, p \in ProductIds, q \in 0..MaxQty, f \in fractions,
     k \in IdempotencyKeys \cup {NoKey} : OrderReceive(r, u, p, q, f, k)

OrderProgress(r) ==
  \/ \E outcome \in {"found", "notfound", "unavailable"} : ProductLookup(r, outcome)
  \/ ReserveReturns(r)
  \/ ReserveTimeout(r)
  \/ \E fails \in BOOLEAN : OrderInsert(r, fails)
  \/ \E outcome \in PublishOutcomes : OrderPublish(r, outcome)
  \/ \E fails \in BOOLEAN : OrderCommit(r, fails)
  \/ ReleaseReturns(r)
  \/ ReleaseTimeout(r)

\* whole-number quantities only
OrderStep(r) ==
  \/ OrderSubmit(r, {FALSE})
  \/ OrderProgress(r)

ConsumerStep(d) ==
  \/ \E e \in channel : WebhookReceive(d, e)
  \/ WebhookConfirmed(d)

Next ==
  \/ \E r \in Requests : OrderStep(r)
  \/ \E d \in Deliveries : ConsumerStep(d)
  \/ \E c \in CallIds : LedgerStep(c)
  \/ HourPasses

Spec == Init /\ [][Next]_vars

\* the order service with any JSON number as quantity, and the ledger behind it
NextValidation ==
  \/ \E r \in Requests : OrderSubmit(r, BOOLEAN)
  \/ \E r \in Requests, q \in 1..MaxQty, answered \in BOOLEAN :
       OrderConnectFails(r, "u1", "p1", q, FALSE, NoKey, answered)
  \/ \E r \in Requests : OrderProgress(r)
  \/ \E r \in Requests : ReserveStep(ReserveCall(r))
  \/ \E r \in Requests : ReleaseReservation(ReleaseCall(r))

SpecValidation == Init /\ [][NextValidation]_vars

\* the same, with every await of the handler settling in the end: axios gives up
\* after timeout: 5000, a query or putEvents resolves or rejects
SpecOrderFair ==
  /\ Init /\ [][NextValidation]_vars
  /\ \A r \in Requests :
       /\ WF_vars(OrderProgress(r))
       /\ WF_vars(ReserveStep(ReserveCall(r)))
       /\ WF_vars(ReleaseReservation(ReleaseCall(r)))

\* the saga with one client (that of request 2, request 1 being any other
\* request, submitted earlier) reading the inventory before and after its order,
\* and one delivery of the channel
NextFlow ==
  \/ \E p \in ProductIds : PreOrderInventoryCheck(2, p)
  \/ PostOrderInventoryCheck(2)
  \/ \E r \in Requests : OrderStep(r)
  \/ ConsumerStep(1)
  \/ \E c \in CallIds : LedgerStep(c)

SpecFlow == Init /\ [][NextFlow]_vars

\* the order service, its process being replaced at any moment, and the ledger
\* behind it
NextOrderRestart ==
  \/ \E r \in Requests : OrderStep(r)
  \/ \E r \in Requests : ReserveStep(ReserveCall(r))
  \/ \E r \in Requests : ReleaseReservation(ReleaseCall(r))
  \/ OrderServiceStart

SpecOrderRestart == Init /\ [][NextOrderRestart]_vars

\* the consumer alone. Two orders on p1 (quantities q1 and q2) have been
\* committed and their OrderCreated events published, a third request may hold a
\* reservation of h; the Map is empty or holds the entries of 10000 earlier events.
CommittedOrder(id, q) ==
  [id |-> id, user_id |-> "u1", product_id |-> "p1", quantity |-> q,
   total_price |-> Price("p1") * q, status |-> "pending", idempotency_key |-> NoKey]

PublishedEvent(id, q) ==
  [event_id |-> <<id, id>>, order_id |-> id, product_id |-> "p1", quantity |-> q]

InitConsumer ==
  /\ \E q1, q2 \in 1..MaxQty, h \in 0..MaxQty, n \in {0, PROCESSED_EVENTS_LIMIT} :
       /\ q1 + q2 + h <= MaxStock
       /\ inventory = [p \in ProductIds |->
            IF p # "p1" THEN NoRow
            ELSE IF h = 0 THEN ReservedRow(ReservedRow(SeedRow(MaxStock), q1), q2)
            ELSE ReservedRow(ReservedRow(ReservedRow(SeedRow(MaxStock), q1), q2), h)]
       /\ orders = {CommittedOrder(1, q1), CommittedOrder(2, q2)}
       /\ channel = {PublishedEvent(1, q1), PublishedEvent(2, q2)}
       /\ otherEvents = [count |-> n, aged |-> FALSE]
  /\ rowLock = [p \in ProductIds |-> NoCall]
  /\ call = [c \in CallIds |-> IdleCall]
  /\ processedEvents = {}
  /\ agedEvents = {}
  /\ delivery = [d \in DeliverySlots |-> IdleDelivery]
  /\ nextOrderId = 3
  /\ nextUuid = 3
  /\ req = [r \in Requests |-> IdleRequest]

NextConsumer ==
  \/ \E d \in DeliverySlots : ConsumerStep(d)
  \/ \E d \in DeliverySlots : ConfirmReservation(ConfirmCall(d))
  \/ HourPasses

SpecConsumer == InitConsumer /\ [][NextConsumer]_vars

\* the consumer alone, posted the event of one committed order (quantity q) and
\* the same payload with one of its fields left out
LeftOut(e) ==
  {[e EXCEPT !.event_id = <<0, 0>>], [e EXCEPT !.order_id = 0],
   [e EXCEPT !.product_id = NoProduct], [e EXCEPT !.quantity = 0]}

InitMalformed ==
  /\ \E q \in 1..MaxQty, h \in 0..MaxQty :
       /\ q + h <= MaxStock
       /\ inventory = [p \in ProductIds |->
            IF p # "p1" THEN NoRow
            ELSE IF h = 0 THEN ReservedRow(SeedRow(MaxStock), q)
            ELSE ReservedRow(ReservedRow(SeedRow(MaxStock), q), h)]
       /\ orders = {CommittedOrder(1, q)}
       /\ channel = {PublishedEvent(1, q)} \cup LeftOut(PublishedEvent(1, q))
  /\ rowLock = [p \in ProductIds |-> NoCall]
  /\ call = [c \in CallIds |-> IdleCall]
  /\ processedEvents = {}
  /\ agedEvents = {}
  /\ otherEvents = NoOtherEvents
  /\ delivery = [d \in DeliverySlots |-> IdleDelivery]
  /\ nextOrderId = 2
  /\ nextUuid = 2
  /\ req = [r \in Requests |-> IdleRequest]

SpecMalformed == InitMalformed /\ [][NextConsumer]_vars

\* the consumer alone, its process being replaced at any moment
NextRestart ==
  \/ NextConsumer
  \/ Restart

\* ... starting with a Map that holds no earlier entries: its cleanup never runs
InitRestart == InitConsumer /\ otherEvents = NoOtherEvents

SpecRestart == InitRestart /\ [][NextRestart]_vars

\* ======================================================================
\* Properties
\* ======================================================================
RECURSIVE SumOver(_, _)
SumOver(S, f) ==
  IF S = {} THEN 0
  ELSE LET x == CHOOSE y \in S : TRUE IN f[x] + SumOver(S \ {x}, f)

Succeeded(c) == call[c].pc = "done" /\ call[c].result.status = 200

\* quantities of the client Reserve calls on p that were answered 200
ReservedByClients(p) ==
  SumOver({c \in Clients : call[c].op = "reserve" /\ call[c].productId = p /\ Succeeded(c)},
          [c \in Clients |-> call[c].quantity])

\* C1 (no oversell): whatever the interleaving of the Reserve calls on a product,
\* the quantities of the calls answered with success never add up to more than
\* the product's stock_quantity.
C1_NoOversell ==
  \A p \in ProductIds :
    inventory[p] # NoRow => ReservedByClients(p) <= inventory[p].stock_quantity

\* two Reserve calls on one product that do not both fit: one answered 200,
\* the other 409
C1_Witness ==
  \E c1, c2 \in Clients :
    /\ c1 # c2
    /\ call[c1].op = "reserve" /\ call[c2].op = "reserve"
    /\ call[c1].productId = call[c2].productId
    /\ Succeeded(c1)
    /\ call[c2].pc = "done" /\ call[c2].result.code = "INSUFFICIENT_STOCK"
    /\ call[c2].quantity <= inventory[call[c1].productId].stock_quantity

\* C2: every inventory row has stock_quantity >= 0, reserved_quantity >= 0 and
\* stock_quantity - reserved_quantity >= 0, in every state reached by any
\* interleaving of reserve, confirm and release requests.
C2_RowInvariant ==
  \A p \in ProductIds :
    inventory[p] # NoRow =>
      /\ inventory[p].stock_quantity >= 0
      /\ inventory[p].reserved_quantity >= 0
      /\ inventory[p].stock_quantity - inventory[p].reserved_quantity >= 0

\* a confirm and a release raced for the same reservation: the confirm was
\* applied, the release that came after it was refused
C2_Witness ==
  \E c1, c2 \in Clients :
    /\ call[c1].op = "confirm" /\ Succeeded(c1)
    /\ call[c2].op = "release" /\ call[c2].pc = "done" /\ call[c2].result.status = 500
    /\ call[c1].productId = call[c2].productId
    /\ inventory[call[c1].productId].reserved_quantity < call[c2].quantity

\* --- Reserve calls run one after another, as the reference for C9
\* the table before any call: reserve leaves stock_quantity alone
SeededTable ==
  [p \in ProductIds |->
     IF inventory[p] = NoRow THEN NoRow ELSE SeedRow(inventory[p].stock_quantity)]

SeqAnswer(tab, p, q) ==
  IF p = NoProduct \/ q <= 0 THEN Result(400, "VALIDATION_ERROR", -1, -1)
  ELSE IF tab[p] = NoRow THEN Result(404, "PRODUCT_NOT_FOUND", -1, -1)
  ELSE IF tab[p].stock_quantity - tab[p].reserved_quantity < q
  THEN Result(409, "INSUFFICIENT_STOCK", tab[p].stock_quantity - tab[p].reserved_quantity, q)
  ELSE Result(200, "", tab[p].stock_quantity - tab[p].reserved_quantity - q, -1)

SeqTable(tab, p, q) ==
  IF SeqAnswer(tab, p, q).status = 200
  THEN [tab EXCEPT ![p].reserved_quantity = @ + q, ![p].version = @ + 1]
  ELSE tab

RECURSIVE SeqMatches(_, _, _)
SeqMatches(order, i, tab) ==
  IF i > Len(order) THEN TRUE
  ELSE LET c == order[i] IN
       /\ call[c].result = SeqAnswer(tab, call[c].productId, call[c].quantity)
       /\ SeqMatches(order, i + 1, SeqTable(tab, call[c].productId, call[c].quantity))

Orderings(S) ==
  {o \in [1..Cardinality(S) -> S] : \A i, j \in 1..Cardinality(S) : o[i] = o[j] => i = j}

\* C9: the answers (status, code, available, requested) of the Reserve calls that
\* have been answered are those the same calls would get run one at a time in some
\* order.
C9_ReserveSerialized ==
  \E order \in Orderings({c \in Clients : call[c].pc = "done"}) :
    SeqMatches(order, 1, SeededTable)

\* stock 3, reserved 0, two overlapping Reserve(2): the call that arrived second
\* got the lock first and is answered available = 1, the other is answered
\* INSUFFICIENT_STOCK with available = 1, requested = 2
C9_Witness ==
  /\ call[1].op = "reserve" /\ call[2].op = "reserve"
  /\ call[1].productId = "p1" /\ call[2].productId = "p1"
  /\ call[1].quantity = 2 /\ call[2].quantity = 2
  /\ inventory["p1"].stock_quantity = 3
  /\ call[2].pc = "done" /\ call[2].result = Result(200, "", 1, -1)
  /\ call[1].pc = "done" /\ call[1].result = Result(409, "INSUFFICIENT_STOCK", 1, 2)

\* C10: a Reserve(p, q) that finds available(p) < q under the lock is answered
\* 409 INSUFFICIENT_STOCK with available = the current available and requested = q;
\* the row of p is left as it was and the row lock is released.
C10_InsufficientStock ==
  [][\A c \in CallIds :
       (/\ call[c].op = "reserve"
        /\ call[c].pc = "locked"
        /\ call'[c].pc = "done"
        /\ Available(inventory[call[c].productId]) < call[c].quantity)
       => (/\ call'[c].result =
                Result(409, "INSUFFICIENT_STOCK",
                       Available(inventory[call[c].productId]), call[c].quantity)
           /\ inventory' = inventory
           /\ rowLock'[call[c].productId] = NoCall)]_vars

\* a Reserve refused for lack of stock on a row that holds a reservation
C10_Witness ==
  \E c \in Clients :
    /\ call[c].op = "reserve" /\ call[c].pc = "done"
    /\ call[c].result.code = "INSUFFICIENT_STOCK"
    /\ call[c].result.available > 0
    /\ inventory[call[c].productId].reserved_quantity > 0
    /\ rowLock[call[c].productId] = NoCall

\* --- the saga
\* confirm-reservation requests of the consumer answered 200 for an event id
ConfirmsApplied(id) ==
  Cardinality({d \in Deliveries : /\ delivery[d].event.event_id = id
                                  /\ Succeeded(ConfirmCall(d))})

\* deliveries of an event id that the consumer answered with 200
Acknowledged(id) ==
  {d \in Deliveries : /\ delivery[d].event.event_id = id
                      /\ delivery[d].pc = "done"
                      /\ delivery[d].status = 200}

\* quantity that the Reserve made for request r still adds to reserved_quantity:
\* the reserve was committed and no release of r has been
Held(r) ==
  IF Succeeded(ReserveCall(r)) /\ ~ Succeeded(ReleaseCall(r))
  THEN req[r].quantity ELSE 0

\* C3 (idempotent event consumption): however many times and with whatever timing
\* one event_id is delivered to the webhook, ConfirmReservation is applied for it
\* exactly once: never twice, and once as soon as a delivery was answered 200.
C3_ConfirmedExactlyOnce ==
  \A e \in channel :
    /\ ConfirmsApplied(e.event_id) <= 1
    /\ Acknowledged(e.event_id) # {} => ConfirmsApplied(e.event_id) = 1

\* C4 (no dangling hold): once POST /orders has answered with an error, nothing
\* reserved for that request is left in reserved_quantity.
C4_NoDanglingHold ==
  \A r \in Requests :
    (req[r].pc = "done" /\ req[r].response.status >= 400) => Held(r) = 0

\* C5 (compensation completeness): a request that failed at the insert, the
\* publish or the commit after its Reserve succeeded ends with its hold given back
\* (available back at the value before the reservation): stated for the end of the
\* request, when it has answered and its release request has been served.
C5_HoldGivenBack ==
  \A r \in Requests :
    (/\ req[r].pc = "done"
     /\ req[r].failedAt \in {"insert", "unique", "publish", "commit"}
     /\ call[ReleaseCall(r)].pc = "done")
    => Held(r) = 0

\* C6 (all or nothing): a completed POST /orders either answered 201 and left a
\* committed order row, a published notification and an unreleased reservation,
\* or left no order row and no notification that the consumer could ever confirm.
\* (What a failed request leaves in reserved_quantity is C4.)
C6_AllOrNothing ==
  \A r \in Requests :
    req[r].pc = "done" =>
      IF req[r].response.status = 201
      THEN /\ req[r].response.order \in orders
           /\ req[r].published \in channel
           /\ Succeeded(ReserveCall(r))
           /\ call[ReleaseCall(r)].pc = "idle"
      ELSE /\ req[r].order \notin orders
           /\ req[r].published \notin channel
           /\ ConfirmsApplied(req[r].published.event_id) = 0

\* C7 (idempotent order submission): of two requests with the same idempotencyKey,
\* when one was answered 201 and no statement or collaborator of the other failed,
\* exactly one order row has the key and the other request is answered
\* duplicate:true with the same order, whatever the interleaving.
C7_IdempotentSubmission ==
  \A r1, r2 \in Requests :
    (/\ r1 # r2
     /\ req[r1].pc = "done" /\ req[r2].pc = "done"
     /\ req[r1].idempotencyKey # NoKey
     /\ req[r1].idempotencyKey = req[r2].idempotencyKey
     /\ req[r1].response.status = 201
     /\ req[r2].stockReserved \/ req[r2].response.duplicate
     /\ req[r2].failedAt \notin {"insert", "publish", "commit"})
    => (/\ Cardinality(OrdersWithKey(req[r1].idempotencyKey)) = 1
        /\ req[r2].response.duplicate
        /\ req[r2].response.order = req[r1].response.order)

\* C8 (exactly-once effect): for every committed order, once the channel has been
\* answered 200 for its event and no delivery of it is still being handled, the
\* order's quantity has been taken from stock_quantity and reserved_quantity by
\* exactly one ConfirmReservation.
C8_EffectExactlyOnce ==
  \A r \in Requests :
    (/\ req[r].pc = "done" /\ req[r].response.status = 201
     /\ Acknowledged(req[r].published.event_id) # {}
     /\ \A d \in Deliveries : delivery[d].event = req[r].published => delivery[d].pc = "done")
    => ConfirmsApplied(req[r].published.event_id) = 1

\* --- the three ledger operations, step by step
\* call c takes the step that ends its transaction
Ends(c) == call[c].pc # "done" /\ call'[c].pc = "done"

RowOf(c) == inventory[call[c].productId]
RowOfNext(c) == inventory'[call[c].productId]

\* C11: a Reserve(p, q) with q > 0 that finds available(p) >= q adds exactly q to
\* reserved_quantity and 1 to version, leaves stock_quantity alone and answers 200
\* with available = stock_quantity - (old reserved_quantity + q).
C11_ReserveEffect ==
  [][\A c \in CallIds :
       (/\ call[c].op = "reserve" /\ call[c].pc = "locked" /\ Ends(c)
        /\ call[c].quantity > 0
        /\ Available(RowOf(c)) >= call[c].quantity)
       => (/\ RowOfNext(c).reserved_quantity = RowOf(c).reserved_quantity + call[c].quantity
           /\ RowOfNext(c).version = RowOf(c).version + 1
           /\ RowOfNext(c).stock_quantity = RowOf(c).stock_quantity
           /\ call'[c].result.status = 200
           /\ call'[c].result.available =
                RowOf(c).stock_quantity - (RowOf(c).reserved_quantity + call[c].quantity))]_vars

\* a Reserve answered 200 on a row that already held a reservation
C11_Witness ==
  \E c \in Clients :
    /\ call[c].op = "reserve" /\ Succeeded(c)
    /\ call[c].snap.reserved_quantity > 0
    /\ call[c].result.available = 0

\* C12 as stated: every ConfirmReservation(p, q) on an existing row takes exactly q
\* from stock_quantity and from reserved_quantity in one step; on a missing row it
\* is answered 404 and changes nothing.
C12_ConfirmAlwaysApplied ==
  [][\A c \in CallIds :
       (call[c].op = "confirm" /\ call[c].pc = "begun" /\ Ends(c))
       => IF RowOf(c) = NoRow
          THEN call'[c].result.status = 404 /\ inventory' = inventory
          ELSE /\ RowOfNext(c).stock_quantity = RowOf(c).stock_quantity - call[c].quantity
               /\ RowOfNext(c).reserved_quantity = RowOf(c).reserved_quantity - call[c].quantity]_vars

\* C12 as amended: a ConfirmReservation(p, q) on an existing row with
\* reserved_quantity >= q takes exactly q from stock_quantity and from
\* reserved_quantity in one step, so available(p) is unchanged, and is answered 200;
\* with reserved_quantity < q it is answered 500 and changes nothing; on a missing
\* row it is answered 404 and changes nothing.
C12_ConfirmEffect ==
  [][\A c \in CallIds :
       (call[c].op = "confirm" /\ call[c].pc = "begun" /\ Ends(c))
       => IF RowOf(c) = NoRow
          THEN call'[c].result.status = 404 /\ inventory' = inventory
          ELSE IF RowOf(c).reserved_quantity >= call[c].quantity
          THEN /\ RowOfNext(c).stock_quantity = RowOf(c).stock_quantity - call[c].quantity
               /\ RowOfNext(c).reserved_quantity = RowOf(c).reserved_quantity - call[c].quantity
               /\ Available(RowOfNext(c)) = Available(RowOf(c))
               /\ call'[c].result.status = 200
          ELSE call'[c].result.status = 500 /\ inventory' = inventory]_vars

\* a confirm applied to a row that keeps part of its reservations, and a confirm
\* on a product without a row
C12_Witness ==
  \E c1, c2 \in Clients :
    /\ call[c1].op = "confirm" /\ Succeeded(c1)
    /\ RowOf(c1).reserved_quantity > 0
    /\ call[c2].op = "confirm" /\ call[c2].pc = "done" /\ call[c2].result.status = 404

\* C13 as stated: every ReleaseReservation(p, q) takes exactly q from
\* reserved_quantity and leaves stock_quantity alone.
C13_ReleaseAlwaysApplied ==
  [][\A c \in CallIds :
       (call[c].op = "release" /\ call[c].pc = "begun" /\ Ends(c) /\ RowOf(c) # NoRow)
       => (/\ RowOfNext(c).reserved_quantity = RowOf(c).reserved_quantity - call[c].quantity
           /\ RowOfNext(c).stock_quantity = RowOf(c).stock_quantity)]_vars

\* C13 as amended: a ReleaseReservation(p, q) with reserved_quantity >= q takes
\* exactly q from reserved_quantity and leaves stock_quantity alone (with
\* reserved_quantity < q it is answered 500 and changes nothing); when the row is
\* as a Reserve(p, q) left it, the release puts stock_quantity, reserved_quantity
\* and available back to what that Reserve found.
C13_ReleaseEffect ==
  [][\A c \in CallIds :
       (call[c].op = "release" /\ call[c].pc = "begun" /\ Ends(c) /\ RowOf(c) # NoRow)
       => /\ IF RowOf(c).reserved_quantity >= call[c].quantity
             THEN /\ RowOfNext(c).reserved_quantity =
                       RowOf(c).reserved_quantity - call[c].quantity
                  /\ RowOfNext(c).stock_quantity = RowOf(c).stock_quantity
                  /\ call'[c].result.status = 200
             ELSE call'[c].result.status = 500 /\ inventory' = inventory
          /\ \A c1 \in CallIds :
               (/\ call[c1].op = "reserve" /\ Succeeded(c1)
                /\ call[c1].productId = call[c].productId
                /\ call[c1].quantity = call[c].quantity
                /\ RowOf(c) = ReservedRow(call[c1].snap, call[c1].quantity))
               => (/\ RowOfNext(c).stock_quantity = call[c1].snap.stock_quantity
                   /\ RowOfNext(c).reserved_quantity = call[c1].snap.reserved_quantity
                   /\ Available(RowOfNext(c)) = Available(call[c1].snap))]_vars

\* Reserve(p, q) then ReleaseReservation(p, q): the row is back at the values the
\* Reserve found, one version later
C13_Witness ==
  \E c1, c2 \in Clients :
    /\ call[c1].op = "reserve" /\ Succeeded(c1)
    /\ call[c2].op = "release" /\ Succeeded(c2)
    /\ call[c1].productId = call[c2].productId
    /\ call[c1].quantity = call[c2].quantity
    /\ RowOf(c1) = [call[c1].snap EXCEPT !.version = @ + 1]

\* C14: every step of reserve, confirm or release that changes an inventory row
\* adds exactly 1 to that row's version.
C14_VersionBumped ==
  [][\A p \in ProductIds :
       inventory'[p] # inventory[p] => inventory'[p].version = inventory[p].version + 1]_vars

\* --- the consumer, step by step
\* delivery d is taken up by the handler in this step
Arrives(d) == delivery[d].pc = "idle" /\ delivery'[d].pc # "idle"

\* delivery d is answered after its confirm-reservation request in this step
AnswersConfirm(d) == delivery[d].pc = "confirming" /\ delivery'[d].pc = "done"

\* some delivery of event id was answered 200 after its confirmation was applied
\* and the id recorded
AppliedAndRecorded(id) ==
  \E d \in DeliverySlots :
    /\ delivery[d].event.event_id = id
    /\ delivery[d].pc = "done" /\ delivery[d].status = 200 /\ ~ delivery[d].duplicate
    /\ Succeeded(ConfirmCall(d))

\* C15: a POST /orders whose userId or productId is missing, or whose quantity is
\* not an integer in (0, 10000], is answered 400 VALIDATION_ERROR at once: no
\* product lookup, no ledger call, no insert and no publish follow.
C15_InvalidRejected ==
  [][\A r \in Requests :
       (/\ req[r].pc = "idle" /\ req'[r].pc # "idle"
        /\ \/ req'[r].userId = NoUser
           \/ req'[r].productId = NoProduct
           \/ req'[r].fraction
           \/ req'[r].quantity <= 0
           \/ req'[r].quantity > MAX_ORDER_QUANTITY)
       => (/\ req'[r].pc = "done"
           /\ req'[r].response.status = 400
           /\ req'[r].response.code = "VALIDATION_ERROR"
           /\ UNCHANGED <<ledgerVars, channel, orders>>)]_vars

\* C16: a delivery whose event_id is in processedEvents is answered 200 with
\* duplicate: true; no confirm-reservation request is made, and no inventory row
\* and no entry of processedEvents changes.
C16_DuplicateSkipped ==
  [][\A d \in DeliverySlots :
       (/\ Arrives(d)
        /\ ValidEvent(delivery'[d].event)
        /\ delivery'[d].event.event_id \in processedEvents)
       => (/\ delivery'[d] = Reply(delivery'[d].event, 200, "", TRUE)
           /\ UNCHANGED <<ledgerVars, processedEvents, agedEvents, otherEvents>>)]_vars

\* an event of quantity 2 delivered twice in sequence: the second delivery is the
\* duplicate, and stock_quantity is 2 lower in total
C16_Witness ==
  \E d1, d2 \in DeliverySlots :
    /\ d1 # d2
    /\ delivery[d1].event = delivery[d2].event
    /\ delivery[d1].event.quantity = 2
    /\ delivery[d1].pc = "done" /\ delivery[d1].status = 200 /\ ~ delivery[d1].duplicate
    /\ delivery[d2].pc = "done" /\ delivery[d2].status = 200 /\ delivery[d2].duplicate
    /\ call[ConfirmCall(d2)] = IdleCall
    /\ inventory["p1"].stock_quantity = MaxStock - 2

\* C17: whenever the consumer answers 200 for a first-time event, the event_id is
\* in processedEvents: it was recorded before the answer, and the cleanup that
\* runs in between does not take it out.
C17_RecordedBeforeAck ==
  [][\A d \in DeliverySlots :
       (/\ delivery[d].pc # "done" /\ delivery'[d].pc = "done"
        /\ delivery'[d].status = 200 /\ ~ delivery'[d].duplicate)
       => delivery'[d].event.event_id \in processedEvents']_vars

\* an event answered 200 and recorded by the very step whose cleanup removed the
\* entry of the other event
C17_Witness ==
  \E d1, d2 \in DeliverySlots :
    /\ delivery[d1].pc = "done" /\ delivery[d1].status = 200 /\ ~ delivery[d1].duplicate
    /\ delivery[d2].pc = "done" /\ delivery[d2].status = 200 /\ ~ delivery[d2].duplicate
    /\ delivery[d1].event.event_id \in processedEvents
    /\ delivery[d2].event.event_id \notin processedEvents
    /\ otherEvents = NoOtherEvents

\* C18: processedEvents survives a restart of the consumer: a delivery of an event
\* that was applied, recorded and answered 200 before is answered as a duplicate
\* and sends no confirmation, so that no inventory row changes again.
C18_DurableAcrossRestart ==
  [][\A d \in DeliverySlots :
       (/\ Arrives(d)
        /\ AppliedAndRecorded(delivery'[d].event.event_id))
       => (/\ delivery'[d].pc = "done" /\ delivery'[d].duplicate
           /\ call'[ConfirmCall(d)] = IdleCall)]_vars

\* C19: the cleanup never re-opens an event: without any restart, every delivery
\* of an event that was applied, recorded and answered 200 finds its id in
\* processedEvents.
C19_NeverReopened ==
  [][\A d \in DeliverySlots :
       (Arrives(d) /\ AppliedAndRecorded(delivery'[d].event.event_id))
       => delivery'[d].event.event_id \in processedEvents]_vars

\* C20: when confirm-reservation answers anything but 200, the consumer answers
\* the channel with that status and code, records nothing and sends no further
\* request; the failed confirmation changed no inventory row; a later delivery of
\* the same event, its id not being recorded, sends the confirmation again.
C20_FailureSurfaced ==
  [][\A d \in DeliverySlots :
       /\ (AnswersConfirm(d) /\ call[ConfirmCall(d)].result.status # 200)
          => (/\ delivery'[d].status = call[ConfirmCall(d)].result.status
              /\ delivery'[d].code = call[ConfirmCall(d)].result.code
              /\ UNCHANGED <<ledgerVars, processedEvents, agedEvents, otherEvents>>)
       /\ (/\ call[ConfirmCall(d)].pc = "begun" /\ call'[ConfirmCall(d)].pc = "done"
           /\ call'[ConfirmCall(d)].result.status # 200)
          => inventory' = inventory
       /\ (/\ Arrives(d)
           /\ ValidEvent(delivery'[d].event)
           /\ delivery'[d].event.event_id \notin processedEvents)
          => (/\ delivery'[d].pc = "confirming"
              /\ call'[ConfirmCall(d)].pc = "begun"
              /\ call'[ConfirmCall(d)].quantity = delivery'[d].event.quantity)]_vars

\* a confirmation refused with 500 was passed on, its event is not recorded, and
\* a later delivery of that event is confirming again
C20_Witness ==
  \E d1, d2 \in DeliverySlots :
    /\ d1 < d2
    /\ delivery[d1].pc = "done" /\ delivery[d1].status = 500
    /\ delivery[d1].code = "INTERNAL_ERROR"
    /\ delivery[d1].event.event_id \notin processedEvents
    /\ delivery[d2].event = delivery[d1].event
    /\ delivery[d2].pc = "confirming"

\* C21: a notification without event_id, order_id, product_id or quantity is
\* answered 400; no confirm-reservation request is made for it and nothing is
\* recorded in processedEvents.
C21_MalformedRejected ==
  [][\A d \in DeliverySlots :
       (/\ Arrives(d)
        /\ \/ delivery'[d].event.event_id = <<0, 0>>
           \/ delivery'[d].event.order_id = 0
           \/ delivery'[d].event.product_id = NoProduct
           \/ delivery'[d].event.quantity = 0)
       => (/\ delivery'[d] = Reply(delivery'[d].event, 400, "VALIDATION_ERROR", FALSE)
           /\ UNCHANGED <<ledgerVars, processedEvents, agedEvents, otherEvents>>)]_vars

\* --- the order transaction
\* C22: the order transaction commits only after the notification was published:
\* every committed Order row has its OrderCreated event on the channel, and a
\* request whose publication failed leaves no Order row.
C22_CommitAfterPublish ==
  /\ \A o \in orders : \E e \in channel : e.order_id = o.id
  /\ \A o \in orders : \E r \in Requests : req[r].order = o /\ req[r].failedAt # "publish"

\* request r leaves Step 6, 7 or 8 in this step without its effect: no row
\* inserted, no event published, no row committed
StepFailed(r) ==
  \/ req[r].pc = "insert" /\ req'[r].pc # "insert" /\ req'[r].order = NoOrder
  \/ req[r].pc = "publish" /\ req'[r].pc # "publish" /\ channel' = channel
  \/ req[r].pc = "commit" /\ req'[r].pc # "commit" /\ req[r].order \notin orders'

\* the release request of r has been sent, for the product and quantity of r
ReleaseSent(r) ==
  /\ call[ReleaseCall(r)].op = "release"
  /\ call[ReleaseCall(r)].productId = req[r].productId
  /\ call[ReleaseCall(r)].quantity = req[r].quantity

\* C23: when the insert, the publication or the commit of a request fails after
\* its Reserve succeeded, the request sends ReleaseReservation for the same
\* productId and quantity in that step; the error answer comes only after it.
C23_FailureCompensated ==
  [][\A r \in Requests :
       /\ StepFailed(r)
          => (/\ req'[r].pc = "releasing"
              /\ call'[ReleaseCall(r)] =
                   NewCall("release", req[r].productId, req[r].quantity, req[r].fraction))
       /\ (req[r].stockReserved /\ req[r].pc # "done" /\ req'[r].pc = "done"
           /\ req'[r].response.status >= 400)
          => ReleaseSent(r)]_vars

\* the answers POST /orders may give
AnswerShapes(r) ==
  LET a == req[r].response IN
  \/ a.status = 201 /\ a.code = "" /\ a.order # NoOrder
  \/ a.status = 200 /\ a.code = "" /\ a.duplicate /\ a.order # NoOrder
  \/ a.status = 400 /\ a.code = "VALIDATION_ERROR"
  \/ a.status = 404 /\ a.code \in {"PRODUCT_NOT_FOUND", "PRODUCT_NOT_IN_INVENTORY"}
  \/ /\ a.status = 409 /\ a.code = "INSUFFICIENT_STOCK"
     /\ a.available = call[ReserveCall(r)].result.available
     /\ a.requested = req[r].quantity
  \/ a.status = 503 /\ a.code = "SERVICE_UNAVAILABLE"
  \/ a.status = 500 /\ a.code = "INTERNAL_ERROR"

\* C24: every POST /orders request is answered, with one of 201, 200 duplicate,
\* 400, 404, 409 (with the ledger's available and the requested quantity), 503
\* and 500, every error answer carrying its code.
C24_AnswerShape ==
  \A r \in Requests :
    /\ req[r].pc # "unanswered"
    /\ req[r].pc = "done" => AnswerShapes(r)

\* C25: once POST /orders has answered 201, GET /orders/:id with the returned id
\* answers 200 with that same order, its status 'pending'; the 201 body carries
\* the id, total_price, status 'pending' and the available_stock of the Reserve.
C25_CommittedBeforeAnswer ==
  \A r \in Requests :
    (req[r].pc = "done" /\ req[r].response.status = 201)
    => (/\ GetOrder(req[r].response.order.id) =
             [status |-> 200, order |-> req[r].response.order]
        /\ req[r].response.order.status = "pending"
        /\ req[r].response.order.id > 0
        /\ req[r].response.order.total_price = Price(req[r].productId) * req[r].quantity
        /\ req[r].response.available = call[ReserveCall(r)].result.available)

\* the client of request r has read the inventory before and after its order
ReadTwice(r) == req[r].preCheck # NoCheck /\ req[r].postCheck # NoCheck

C27_ReleaseOnlyAfterReserve ==
  [][\A r \in Requests :
       /\ (req'[r].pc = "done" /\ req'[r].response.status \in {200, 201, 400, 404, 409, 503})
          => call'[ReleaseCall(r)] = IdleCall
       /\ call[ReleaseCall(r)].pc # "idle"
          => (/\ call'[ReleaseCall(r)].pc # "idle"
              /\ call[ReleaseCall(r)].pc = "done" => call'[ReleaseCall(r)] = call[ReleaseCall(r)])
       /\ (req[r].pc = "releasing" /\ req'[r].pc # "releasing")
          => (/\ req'[r].pc = "done"
              /\ req'[r].response.status = 500
              /\ req'[r].response.code = "INTERNAL_ERROR")
       /\ call'[ReleaseCall(r)].pc # "idle" => req'[r].stockReserved]_vars

\* a request whose one release request was refused by the ledger answered 500,
\* beside a request that ended at a failed Reserve without releasing
C27_Witness ==
  \E r1, r2 \in Requests :
    /\ req[r1].pc = "done" /\ req[r1].response.status = 500
    /\ call[ReleaseCall(r1)].pc = "done" /\ call[ReleaseCall(r1)].result.status = 500
    /\ req[r2].pc = "done" /\ req[r2].response.status \in {409, 503}
    /\ call[ReserveCall(r2)].pc # "idle"
    /\ call[ReleaseCall(r2)] = IdleCall

\* a request arrives with an idempotency key for which an Order row exists
ArrivesWithKnownKey(r) ==
  /\ req[r].pc = "idle" /\ req'[r].pc # "idle"
  /\ req'[r].idempotencyKey # NoKey
  /\ OrdersWithKey(req'[r].idempotencyKey) # {}

\* the answer is the existing row marked duplicate, the request is over and has
\* sent nothing, and neither the ledger, the orders table nor the channel moved
AnsweredAsDuplicate(r) ==
  /\ req'[r].pc = "done"
  /\ req'[r].response.status = 200
  /\ req'[r].response.duplicate
  /\ req'[r].response.order \in OrdersWithKey(req'[r].idempotencyKey)
  /\ call'[ReserveCall(r)] = IdleCall /\ call'[ReleaseCall(r)] = IdleCall
  /\ req'[r].order = NoOrder /\ req'[r].published = NoEvent
  /\ UNCHANGED <<ledgerVars, consumerVars, channel, orders, nextOrderId, nextUuid>>

\* C28 as claimed: a request with the idempotency key of an existing Order row
\* is answered with that row and duplicate:true and does nothing else,
\* regardless of its other fields.
C28_DuplicateWhateverTheBody ==
  [][\A r \in Requests : ArrivesWithKnownKey(r) => AnsweredAsDuplicate(r)]_vars

\* C28: a request that passes validation and carries the idempotency key of an
\* existing Order row is answered with that row and duplicate:true and does
\* nothing else, whatever its userId, productId and quantity; one that fails
\* validation is answered 400 and does nothing else either.
C28_DuplicateReturned ==
  [][\A r \in Requests : ArrivesWithKnownKey(r) =>
       IF ValidOrderBody(req'[r].userId, req'[r].productId, req'[r].quantity, req'[r].fraction)
       THEN AnsweredAsDuplicate(r)
       ELSE /\ req'[r].pc = "done" /\ req'[r].response.status = 400
            /\ call'[ReserveCall(r)] = IdleCall /\ call'[ReleaseCall(r)] = IdleCall
            /\ UNCHANGED <<ledgerVars, consumerVars, channel, orders, nextOrderId, nextUuid>>]_vars

\* a request answered as the duplicate of an order placed with another body
C28_Witness ==
  \E r \in Requests :
    /\ req[r].pc = "done" /\ req[r].response.duplicate
    /\ req[r].response.order \in orders
    /\ req[r].response.order.idempotency_key = req[r].idempotencyKey
    /\ \/ req[r].response.order.quantity # req[r].quantity
       \/ req[r].fraction
       \/ req[r].response.order.user_id # req[r].userId
    /\ call[ReserveCall(r)] = IdleCall

\* the request that published notification e, with its reserve request for the
\* product and quantity of e answered 200
ReservedBy(r, e) ==
  /\ req[r].published = e
  /\ call[ReserveCall(r)].op = "reserve"
  /\ call[ReserveCall(r)].productId = e.product_id
  /\ call[ReserveCall(r)].quantity = e.quantity
  /\ ~ call[ReserveCall(r)].fraction
  /\ call[ReserveCall(r)].pc = "done" /\ call[ReserveCall(r)].result.status = 200

\* C29: every notification on the channel, and every notification a delivery
\* has handed to the consumer, was published by a request whose Reserve of that
\* product and quantity had succeeded; no two notifications share an event_id.
C29_PublishedAfterReserve ==
  /\ \A e \in channel : \E r \in Requests : ReservedBy(r, e)
  /\ \A d \in DOMAIN delivery :
       delivery[d].pc # "idle" => \E r \in Requests : ReservedBy(r, delivery[d].event)
  /\ \A e1, e2 \in channel : e1.event_id = e2.event_id => e1 = e2
  /\ \A r1, r2 \in Requests :
       (r1 # r2 /\ req[r1].published # NoEvent) =>
         req[r1].published.event_id # req[r2].published.event_id

\* two notifications published by two requests, one of them handed to the
\* consumer and confirmed
C29_Witness ==
  \E e1, e2 \in channel :
    /\ e1 # e2
    /\ \E d \in DOMAIN delivery :
         /\ delivery[d].pc = "done" /\ delivery[d].status = 200
         /\ delivery[d].event = e1

\* the row of p1 before any notification is consumed: the holds of the two
\* orders and a third hold of h
HeldRow(q1, q2, h) ==
  IF h = 0 THEN ReservedRow(ReservedRow(SeedRow(MaxStock), q1), q2)
  ELSE ReservedRow(ReservedRow(ReservedRow(SeedRow(MaxStock), q1), q2), h)

\* the first two deliveries carried notifications with different event_ids and
\* both were consumed successfully; nothing was delivered after them
BothConsumed ==
  /\ delivery[1].pc = "done" /\ delivery[1].status = 200 /\ ~ delivery[1].duplicate
  /\ delivery[2].pc = "done" /\ delivery[2].status = 200 /\ ~ delivery[2].duplicate
  /\ delivery[1].event.event_id # delivery[2].event.event_id
  /\ delivery[3].pc = "idle"

\* the ledger row is the one both orders of consumption lead to
LedgerAfterBoth ==
  LET a == delivery[1].event.quantity
      b == delivery[2].event.quantity
  IN \E h \in 0..MaxQty :
       /\ inventory["p1"] = ConfirmedRow(ConfirmedRow(HeldRow(a, b, h), a), b)
       /\ inventory["p1"] = ConfirmedRow(ConfirmedRow(HeldRow(a, b, h), b), a)

\* C30: after two notifications with different event_ids have both been
\* consumed successfully, the ledger row and the set of processed event ids are
\* the same whichever of the two was delivered first: the row with both
\* quantities confirmed, and the set holding both event_ids.
C30_ConsumptionCommutes ==
  BothConsumed =>
    /\ LedgerAfterBoth
    /\ processedEvents = {delivery[1].event.event_id, delivery[2].event.event_id}

\* the ledger half of C30 alone
C30_LedgerCommutes == BothConsumed => LedgerAfterBoth

\* the UPDATE of call c (confirm or release) is about to run on a row whose
\* reserved_quantity, or for a confirm whose stock_quantity, is below its quantity
Overdraws(c) ==
  LET row == inventory[call[c].productId] IN
  /\ call[c].pc = "begun" /\ call[c].op \in {"confirm", "release"}
  /\ row # NoRow
  /\ \/ call[c].quantity > row.reserved_quantity
     \/ call[c].op = "confirm" /\ call[c].quantity > row.stock_quantity

\* C31: a confirm or release whose quantity exceeds the current
\* reserved_quantity (or a confirm whose quantity exceeds stock_quantity) is
\* answered with an error and leaves the table, the row's version included, and
\* the row locks as they were.
C31_OverdrawRejected ==
  [][\A c \in CallIds :
       (Overdraws(c) /\ call'[c].pc = "done") =>
         /\ call'[c].result.status = 500
         /\ call'[c].result.code = "INTERNAL_ERROR"
         /\ inventory' = inventory
         /\ rowLock' = rowLock]_vars

\* a release and a confirm were refused on a row that still holds a reservation
\* smaller than their quantity
C31_Witness ==
  \E c1, c2 \in CallIds :
    /\ call[c1].op = "release" /\ call[c1].pc = "done" /\ call[c1].result.status = 500
    /\ call[c2].op = "confirm" /\ call[c2].pc = "done" /\ call[c2].result.status = 500
    /\ call[c1].productId = call[c2].productId
    /\ inventory[call[c1].productId].reserved_quantity > 0
    /\ inventory[call[c1].productId].reserved_quantity < call[c1].quantity
    /\ inventory[call[c1].productId].reserved_quantity < call[c2].quantity

\* a row lock is held only by a reserve request between its SELECT ... FOR
\* UPDATE and the end of its transaction
LockHeldInsideReserve ==
  \A p \in ProductIds :
    rowLock[p] # NoCall =>
      /\ call[rowLock[p]].pc = "locked"
      /\ call[rowLock[p]].op = "reserve"
      /\ call[rowLock[p]].productId = p

\* C32: every exit of Reserve gives the row lock up, nothing is sent to another
\* service in a step of the ledger, and every call of Reserve,
\* ConfirmReservation or ReleaseReservation that has begun is answered.
C32_ReserveTerminates ==
  /\ []LockHeldInsideReserve
  /\ [][UNCHANGED <<consumerVars, orderVars>>]_vars
  /\ \A c \in Clients : (call[c].pc \in {"begun", "locked"}) ~> (call[c].pc = "done")

\* two reserve requests on one row, one answered 200 and one refused, with
\* every call answered and no lock left
C32_Witness ==
  /\ \A c \in Clients : call[c].pc = "done"
  /\ \A p \in ProductIds : rowLock[p] = NoCall
  /\ \E c1, c2 \in Clients :
       /\ call[c1].op = "reserve" /\ call[c2].op = "reserve"
       /\ call[c1].productId = call[c2].productId
       /\ call[c1].result.status = 200
       /\ call[c2].result.status \in {409, 500}

\* C33: every POST /orders request that arrived is answered, and once answered
\* its response is never replaced by another.
C33_OneResponse ==
  /\ \A r \in Requests : (req[r].pc # "idle") ~> (req[r].pc = "done")
  /\ [][\A r \in Requests :
          req[r].pc = "done" => (req'[r].pc = "done" /\ req'[r].response = req[r].response)]_vars

\* C34: with every write made by reserve, confirm-reservation or
\* release-reservation, no reserve request is answered CONCURRENT_MODIFICATION:
\* the row a reserve request updates is the row it read under the lock.
C34_VersionCheckNeverMisses ==
  \A c \in CallIds :
    /\ call[c].result.code # "CONCURRENT_MODIFICATION"
    /\ (call[c].pc = "locked" /\ call[c].op = "reserve")
         => inventory[call[c].productId] = call[c].snap

\* two reserve requests on one row both answered 200, the second having read
\* the version the first one wrote
C34_Witness ==
  \E c1, c2 \in Clients :
    /\ c1 # c2
    /\ call[c1].op = "reserve" /\ call[c1].pc = "done" /\ call[c1].result.status = 200
    /\ call[c2].op = "reserve" /\ call[c2].pc = "done" /\ call[c2].result.status = 200
    /\ call[c1].productId = call[c2].productId
    /\ call[c2].snap.version = call[c1].snap.version + 1

\* C35: every event_id in the Map belongs to a delivery whose confirm request,
\* for the product_id and quantity of the event, was answered 200.
C35_RecordedOnlyAfterConfirm ==
  \A id \in processedEvents :
    \E d \in DOMAIN delivery :
      /\ delivery[d].event.event_id = id
      /\ call[ConfirmCall(d)].op = "confirm"
      /\ call[ConfirmCall(d)].productId = delivery[d].event.product_id
      /\ call[ConfirmCall(d)].quantity = delivery[d].event.quantity
      /\ call[ConfirmCall(d)].pc = "done"
      /\ call[ConfirmCall(d)].result.status = 200

\* one event recorded after its confirmation, beside a delivery whose
\* confirmation was refused and whose event_id is not in the Map
C35_Witness ==
  \E d1, d2 \in DOMAIN delivery :
    /\ delivery[d1].pc = "done" /\ delivery[d1].status = 200
    /\ delivery[d1].event.event_id \in processedEvents
    /\ delivery[d2].pc = "done" /\ delivery[d2].status = 500
    /\ delivery[d2].event.event_id \notin processedEvents

\* no order request, ledger request or delivery is in progress, and every
\* published notification has a delivery answered 200
Quiescent ==
  /\ \A r \in Requests : req[r].pc \in {"idle", "done"}
  /\ \A c \in CallIds : call[c].pc \in {"idle", "done"}
  /\ \A d \in DOMAIN delivery : delivery[d].pc \in {"idle", "done"}
  /\ \A e \in channel :
       \E d \in DOMAIN delivery :
         delivery[d].pc = "done" /\ delivery[d].event = e /\ delivery[d].status = 200

OrdersFor(p) == {o \in orders : o.product_id = p}

\* C36: at quiescence every product has reserved_quantity 0 and stock_quantity
\* equal to its seeded stock minus the quantities of its committed Order rows.
C36_Reconciled ==
  Quiescent =>
    \A p \in ProductIds :
      inventory[p] # NoRow =>
        /\ inventory[p].reserved_quantity = 0
        /\ inventory[p].stock_quantity =
             MaxStock - SumOver(OrdersFor(p), [o \in OrdersFor(p) |-> o.quantity])

\* a ledger request that has begun and whose own row is not locked (or does
\* not exist) can take its step, whatever is locked on other rows
ProceedsUnlessOwnRowLocked ==
  \A c \in CallIds :
    (call[c].pc = "begun" /\ (inventory[call[c].productId] = NoRow
                               \/ rowLock[call[c].productId] = NoCall))
      => ENABLED LedgerStep(c)

====
